---- MODULE Spec2Model ----
(***************************************************************************)
(* A model of the cache simulation engine of cache-emulator               *)
(* (src/src/cache.rs): Cache::new, Cache::run_trace and                    *)
(* Cache::process_access with the set-associative store, the victim       *)
(* buffer, the multi-column predictor and the statistics.                  *)
(*                                                                         *)
(* Rust's Option<T> is modelled as a sequence of length 0 (None) or 1      *)
(* (Some(x)); vectors indexed from 0 are functions on 0..n-1, the victim   *)
(* buffer's Vec is a sequence.                                             *)
(***************************************************************************)
EXTENDS Integers, Sequences, FiniteSets, TLC

\* ------------------------------------------------------------ bounds
\* Longest trace handed to run_trace.
MaxAccesses == 5

\* Longest trace of the runs whose whole trace is fixed before the first
\* access (SpecRun).
MaxTrace == 3

\* ------------------------------------------------------------ helpers
None == <<>>
Some(x) == <<x>>
IsSome(o) == Len(o) = 1
IsNone(o) == Len(o) = 0
Unwrap(o) == o[1]

Max(a, b) == IF a >= b THEN a ELSE b
Min(a, b) == IF a <= b THEN a ELSE b

Pow2(n) == 2 ^ n

\* (bits >> way) & 1
BitAt(bits, way) == (bits \div Pow2(way)) % 2

\* u32::count_ones
RECURSIVE count_ones(_)
count_ones(bits) == IF bits = 0 THEN 0 ELSE (bits % 2) + count_ones(bits \div 2)

\* Iterator::min_by_key over a vector whose keys are key[0], ..., key[n-1]:
\* the index of the first element with the minimum key.
MinByKey(key) ==
    CHOOSE i \in DOMAIN key :
        /\ \A j \in DOMAIN key : key[i] <= key[j]
        /\ \A j \in DOMAIN key : j < i => key[j] > key[i]

\* Iterator::max_by_key over the elements with keys key[i], i in DOMAIN key:
\* the index of the last element with the maximum key; None when there is
\* no element.
MaxByKey(key) ==
    IF DOMAIN key = {} THEN None
    ELSE Some(CHOOSE i \in DOMAIN key :
                /\ \A j \in DOMAIN key : key[j] <= key[i]
                /\ \A j \in DOMAIN key : j > i => key[j] < key[i])

\* Lexicographic order on the triples (is_hot, stamp, way).
TupleLess(a, b) ==
    \/ a[1] < b[1]
    \/ a[1] = b[1] /\ a[2] < b[2]
    \/ a[1] = b[1] /\ a[2] = b[2] /\ a[3] < b[3]

\* ------------------------------------------------------------ configuration
PredictionStrategy == {"None", "Mru", "MultiColumn"}

AccessKind == {"Read", "Write"}

\* A CacheConfig.
Config(size, block, assoc, victim, prediction) ==
    [cache_size |-> size, block_size |-> block, associativity |-> assoc,
     victim_cache_entries |-> victim, prediction |-> prediction]

\* The (cache_size, associativity, victim_cache_entries) triples explored,
\* all with 8-byte blocks: 1 set x 1 way (with no, a one-entry and a two-entry
\* victim buffer), 2 sets x 1 way and 1 set x 2 ways (with and without a
\* victim buffer), 4 sets x 2 ways.
Shapes ==
    {<<8, 1, 0>>, <<8, 1, 1>>, <<8, 1, 2>>, <<16, 1, 0>>, <<16, 1, 1>>,
     <<16, 2, 0>>, <<16, 2, 1>>, <<64, 2, 0>>}

Configs ==
    { Config(g[1], 8, g[2], g[3], p) : g \in Shapes, p \in PredictionStrategy }

\* The byte addresses of the traces: the first bytes of blocks 0, 1, 2, 3.
Addresses == {0, 8, 16, 24}

TraceAccess == [kind : AccessKind, address : Addresses]

num_sets(config) ==
    LET blocks == Max(config.cache_size \div config.block_size, 1)
        ways == Max(config.associativity, 1)
    IN Max(blocks \div ways, 1)

Ways(config) == Max(config.associativity, 1)

\* ------------------------------------------------------------ statistics
PredictionStats_new(mode) ==
    [mode |-> mode, first_hits |-> 0, non_first_hits |-> 0,
     total_hits_observed |-> 0, bit_vector_search_total |-> 0,
     bit_vector_observations |-> 0]

CacheStats_new(prediction) ==
    [accesses |-> 0, reads |-> 0, writes |-> 0, hits |-> 0, misses |-> 0,
     victim_hits |-> 0,
     prediction |-> IF prediction = "None" THEN None
                    ELSE Some(PredictionStats_new(prediction))]

\* A rate is the pair <<numerator, denominator>> of the division the accessor
\* performs; the guarded branch returns the constant 0.0.
ZeroRate == <<0, 1>>

hit_rate_Unguarded(st) == <<st.hits, st.accesses>>

hit_rate(st) ==
    IF st.accesses = 0 THEN ZeroRate ELSE <<st.hits, st.accesses>>

victim_hit_ratio(st) ==
    IF st.hits = 0 THEN ZeroRate ELSE <<st.victim_hits, st.hits>>

first_hit_rate(ps) ==
    IF ps.total_hits_observed = 0 THEN ZeroRate
    ELSE <<ps.first_hits, ps.total_hits_observed>>

non_first_hit_rate(ps) ==
    IF ps.total_hits_observed = 0 THEN ZeroRate
    ELSE <<ps.non_first_hits, ps.total_hits_observed>>

avg_bit_vector_search(ps) ==
    IF ps.bit_vector_observations = 0 THEN ZeroRate
    ELSE <<ps.bit_vector_search_total, ps.bit_vector_observations>>

\* ------------------------------------------------------------ cache line
CacheLine_new(tag, block_address, stamp) ==
    [tag |-> tag, block_address |-> block_address, stamp |-> stamp,
     has_received_hit |-> FALSE]

mark_hit_KeepPending(line) ==
    [line |-> line, is_first_hit |-> ~line.has_received_hit]

\* CacheLine::mark_hit: the line afterwards and the returned flag.
mark_hit(line) ==
    [line |-> [line EXCEPT !.has_received_hit = TRUE],
     is_first_hit |-> ~line.has_received_hit]

\* ------------------------------------------------------------ victim buffer
VictimBuffer_new(capacity) == [entries |-> <<>>, capacity |-> capacity]

\* Vec::remove(idx), idx counted from 1 here.
RemoveAt(seq, idx) ==
    SubSeq(seq, 1, idx - 1) \o SubSeq(seq, idx + 1, Len(seq))

VictimBuffer_take_Keep(vb, block_address) ==
    IF vb.capacity = 0 THEN [vb |-> vb, line |-> None]
    ELSE
      LET hits == { i \in 1..Len(vb.entries) :
                      vb.entries[i].block_address = block_address }
      IN IF hits # {}
         THEN [vb |-> vb, line |-> Some(vb.entries[CHOOSE i \in hits : TRUE])]
         ELSE [vb |-> vb, line |-> None]

\* VictimBuffer::take: the buffer afterwards and the Option<CacheLine> returned.
VictimBuffer_take(vb, block_address) ==
    IF vb.capacity = 0 THEN [vb |-> vb, line |-> None]
    ELSE
      LET hits == { i \in 1..Len(vb.entries) :
                      vb.entries[i].block_address = block_address }
      IN IF hits # {}
         THEN LET idx == CHOOSE i \in hits : \A j \in hits : i <= j
              IN [vb |-> [vb EXCEPT !.entries = RemoveAt(vb.entries, idx)],
                  line |-> Some(vb.entries[idx])]
         ELSE [vb |-> vb, line |-> None]

VictimBuffer_insert_KeepStamp(vb, line, stamp) ==
    IF vb.capacity = 0 THEN vb
    ELSE
      LET kept ==
            IF Len(vb.entries) = vb.capacity
            THEN RemoveAt(vb.entries,
                          CHOOSE i \in DOMAIN vb.entries :
                            \A k \in DOMAIN vb.entries :
                                \/ vb.entries[i].stamp < vb.entries[k].stamp
                                \/ vb.entries[i].stamp = vb.entries[k].stamp /\ i <= k)
            ELSE vb.entries
      IN [vb EXCEPT !.entries = Append(kept, line)]

VictimBuffer_insert_NoEvict(vb, line, stamp) ==
    IF vb.capacity = 0 THEN vb
    ELSE [vb EXCEPT !.entries = Append(vb.entries, [line EXCEPT !.stamp = stamp])]

VictimBuffer_insert_Drop(vb, line, stamp) == vb

VictimBuffer_insert_DropNewest(vb, line, stamp) ==
    IF vb.capacity = 0 THEN vb
    ELSE
      LET stamped == [line EXCEPT !.stamp = stamp]
          kept ==
            IF Len(vb.entries) = vb.capacity
            THEN SubSeq(vb.entries, 1, Len(vb.entries) - 1)
            ELSE vb.entries
      IN [vb EXCEPT !.entries = Append(kept, stamped)]

\* VictimBuffer::insert
VictimBuffer_insert(vb, line, stamp) ==
    IF vb.capacity = 0 THEN vb
    ELSE
      LET stamped == [line EXCEPT !.stamp = stamp]
          kept ==
            IF Len(vb.entries) = vb.capacity
            THEN LET idx == MinByKey([i \in 1..Len(vb.entries) |->
                                        vb.entries[i].stamp])
                 IN RemoveAt(vb.entries, idx)
            ELSE vb.entries
      IN [vb EXCEPT !.entries = Append(kept, stamped)]

\* ------------------------------------------------------------ predictor
MultiColumnPredictor_new(n_sets, ways) ==
    LET f == IF ways <= 1 THEN 1
             ELSE IF ways <= 4 THEN 2
             ELSE IF ways <= 8 THEN 4
             ELSE 8
        columns == Max(1, Min(f, Max(ways, 1)))
    IN [bits |-> [i \in 0..(n_sets * columns - 1) |-> 0],
        sets |-> n_sets, columns |-> columns]

MultiColumnPredictor_column(mc, block_address) ==
    IF mc.columns = 1 THEN 0
    ELSE (block_address \div mc.sets) % mc.columns

MultiColumnPredictor_index(mc, set_index, column) == set_index * mc.columns + column

MultiColumnPredictor_observe(mc, set_index, block_address) ==
    mc.bits[MultiColumnPredictor_index(mc, set_index, MultiColumnPredictor_column(mc, block_address))]

MultiColumnPredictor_mark(mc, set_index, block_address, way) ==
    IF way >= 32 THEN mc
    ELSE LET idx == MultiColumnPredictor_index(mc, set_index, MultiColumnPredictor_column(mc, block_address))
         IN IF BitAt(mc.bits[idx], way) = 1 THEN mc
            ELSE [mc EXCEPT !.bits[idx] = @ + Pow2(way)]

MultiColumnPredictor_clear_Keep(mc, set_index, block_address, way) == mc

MultiColumnPredictor_clear(mc, set_index, block_address, way) ==
    IF way >= 32 THEN mc
    ELSE LET idx == MultiColumnPredictor_index(mc, set_index, MultiColumnPredictor_column(mc, block_address))
         IN IF BitAt(mc.bits[idx], way) = 0 THEN mc
            ELSE [mc EXCEPT !.bits[idx] = @ - Pow2(way)]

\* ------------------------------------------------------------ cache
\* Cache::new
Cache_new(config) ==
    LET n_sets == num_sets(config)
        ways == Max(config.associativity, 1)
    IN [config |-> config,
        sets |-> [s \in 0..(n_sets - 1) |-> [w \in 0..(ways - 1) |-> None]],
        victim |-> IF config.victim_cache_entries > 0
                   THEN Some(VictimBuffer_new(config.victim_cache_entries))
                   ELSE None,
        prediction_mode |-> config.prediction,
        multi_predictor |-> IF config.prediction = "MultiColumn"
                            THEN Some(MultiColumnPredictor_new(n_sets, ways))
                            ELSE None,
        next_stamp |-> 1,
        num_sets |-> n_sets]

\* The first two statements of process_access: the access counters.
CountAccessWriteThrough(st, kind) ==
    IF kind = "Read"
    THEN [st EXCEPT !.accesses = @ + 1, !.reads = @ + 1]
    ELSE [st EXCEPT !.accesses = @ + 1, !.writes = @ + 1, !.misses = @ + 1]

CountAccessDropWrite(st, kind) ==
    IF kind = "Read"
    THEN [st EXCEPT !.accesses = @ + 1, !.reads = @ + 1]
    ELSE [st EXCEPT !.accesses = @ + 1]

CountAccess(st, kind) ==
    IF kind = "Read"
    THEN [st EXCEPT !.accesses = @ + 1, !.reads = @ + 1]
    ELSE [st EXCEPT !.accesses = @ + 1, !.writes = @ + 1]

\* The address decomposition of process_access.
BlockAddress(c, address) == address \div c.config.block_size

SetIndexZero(c, block_address) == 0

SetIndex(c, block_address) == block_address % c.num_sets

TagLowBits(c, block_address) == block_address % c.num_sets

Tag(c, block_address) == block_address \div c.num_sets

\* Cache::mru_way
mru_way(c, set_index) ==
    MaxByKey([w \in { v \in DOMAIN c.sets[set_index] : IsSome(c.sets[set_index][v]) }
                |-> Unwrap(c.sets[set_index][w]).stamp])

\* Cache::observe_prediction
observe_prediction(c, set_index, block_address) ==
    CASE c.prediction_mode = "None" -> [kind |-> "None"]
      [] c.prediction_mode = "Mru" ->
            [kind |-> "Mru", predicted |-> mru_way(c, set_index)]
      [] c.prediction_mode = "MultiColumn" ->
            [kind |-> "MultiColumn",
             bits |-> IF IsSome(c.multi_predictor)
                      THEN MultiColumnPredictor_observe(Unwrap(c.multi_predictor), set_index, block_address)
                      ELSE 0]

record_prediction_FirstOnly(observation, actual_way, is_first_hit, st) ==
    IF IsNone(st.prediction) THEN st
    ELSE
      LET ps0 == Unwrap(st.prediction)
          ps1 == [ps0 EXCEPT !.total_hits_observed = @ + 1,
                             !.first_hits = IF is_first_hit THEN @ + 1 ELSE @]
      IN [st EXCEPT !.prediction =
            Some(IF observation.kind = "MultiColumn"
                 THEN [ps1 EXCEPT !.bit_vector_observations = @ + 1]
                 ELSE ps1)]

record_prediction_SkipZero(observation, actual_way, is_first_hit, st) ==
    IF IsNone(st.prediction) THEN st
    ELSE
      LET ps0 == Unwrap(st.prediction)
          ps1 == [ps0 EXCEPT !.total_hits_observed = @ + 1,
                             !.first_hits = IF is_first_hit THEN @ + 1 ELSE @,
                             !.non_first_hits = IF is_first_hit THEN @ ELSE @ + 1]
          ps2 ==
            IF observation.kind = "MultiColumn" /\ observation.bits # 0
            THEN IF BitAt(observation.bits, actual_way) # 0
                 THEN [ps1 EXCEPT
                         !.bit_vector_search_total =
                            @ + count_ones(observation.bits % Pow2(actual_way)) + 1,
                         !.bit_vector_observations = @ + 1]
                 ELSE [ps1 EXCEPT
                         !.bit_vector_search_total = @ + count_ones(observation.bits),
                         !.bit_vector_observations = @ + 1]
            ELSE ps1
      IN [st EXCEPT !.prediction = Some(ps2)]

\* Cache::record_prediction with actual = Some((actual_way, is_first_hit)):
\* the statistics afterwards.
record_prediction(observation, actual_way, is_first_hit, st) ==
    IF IsNone(st.prediction) THEN st
    ELSE
      LET ps0 == Unwrap(st.prediction)
          ps1 == [ps0 EXCEPT !.total_hits_observed = @ + 1,
                             !.first_hits = IF is_first_hit THEN @ + 1 ELSE @,
                             !.non_first_hits = IF is_first_hit THEN @ ELSE @ + 1]
          ps2 ==
            IF observation.kind = "MultiColumn"
            THEN LET bits == observation.bits
                     mask == Pow2(actual_way)
                 IN IF bits = 0
                    THEN [ps1 EXCEPT !.bit_vector_observations = @ + 1]
                    ELSE IF BitAt(bits, actual_way) # 0
                    THEN [ps1 EXCEPT
                            !.bit_vector_search_total = @ + count_ones(bits % mask) + 1,
                            !.bit_vector_observations = @ + 1]
                    ELSE [ps1 EXCEPT
                            !.bit_vector_search_total = @ + count_ones(bits),
                            !.bit_vector_observations = @ + 1]
            ELSE ps1
      IN [st EXCEPT !.prediction = Some(ps2)]

\* The ways of a set holding a line with the tag.
MatchingWays(c, set_index, tag) ==
    { w \in DOMAIN c.sets[set_index] :
        IsSome(c.sets[set_index][w]) /\ Unwrap(c.sets[set_index][w]).tag = tag }

touch_if_hit_Never(c, set_index, tag) == [cache |-> c, hit |-> None]

touch_if_hit_NoStamp(c, set_index, tag) ==
    LET ms == MatchingWays(c, set_index, tag)
    IN IF ms = {} THEN [cache |-> c, hit |-> None]
       ELSE LET way == CHOOSE w \in ms : \A v \in ms : w <= v
                marked == mark_hit(Unwrap(c.sets[set_index][way]))
            IN [cache |-> [c EXCEPT !.sets[set_index][way] = Some(marked.line)],
                hit |-> Some([way |-> way, is_first_hit |-> marked.is_first_hit])]

touch_if_hit_StampAhead(c, set_index, tag) ==
    LET ms == MatchingWays(c, set_index, tag)
    IN IF ms = {} THEN [cache |-> c, hit |-> None]
       ELSE LET way == CHOOSE w \in ms : \A v \in ms : w <= v
                marked == mark_hit(Unwrap(c.sets[set_index][way]))
                line == [marked.line EXCEPT !.stamp = c.next_stamp + 1]
            IN [cache |-> [c EXCEPT !.sets[set_index][way] = Some(line)],
                hit |-> Some([way |-> way, is_first_hit |-> marked.is_first_hit])]

\* Cache::touch_if_hit: the cache afterwards and the Option<(way, is_first_hit)>.
touch_if_hit(c, set_index, tag) ==
    LET ms == MatchingWays(c, set_index, tag)
    IN IF ms = {} THEN [cache |-> c, hit |-> None]
       ELSE LET way == CHOOSE w \in ms : \A v \in ms : w <= v
                marked == mark_hit(Unwrap(c.sets[set_index][way]))
                line == [marked.line EXCEPT !.stamp = c.next_stamp]
            IN [cache |-> [c EXCEPT !.sets[set_index][way] = Some(line)],
                hit |-> Some([way |-> way, is_first_hit |-> marked.is_first_hit])]

\* The key of min_by_key in find_victim_index: the stamp, u64::MIN for an
\* empty slot.
StampKey(c, set_index, w) ==
    IF IsSome(c.sets[set_index][w]) THEN Unwrap(c.sets[set_index][w]).stamp ELSE 0

\* The (is_hot, stamp, way) triple of find_victim_index's MultiColumn arm.
HotTuple(c, set_index, way) ==
    LET line == Unwrap(c.sets[set_index][way])
        bits == MultiColumnPredictor_observe(Unwrap(c.multi_predictor), set_index, line.block_address)
    IN <<BitAt(bits, way), line.stamp, way>>

find_victim_index_Newest(c, set_index) ==
    CHOOSE i \in DOMAIN c.sets[set_index] :
        \A j \in DOMAIN c.sets[set_index] :
            j # i => StampKey(c, set_index, j) < StampKey(c, set_index, i)

find_victim_index_StampOnly(c, set_index) ==
    MinByKey([w \in DOMAIN c.sets[set_index] |-> StampKey(c, set_index, w)])

find_victim_index_LastWay(c, set_index) ==
    CHOOSE i \in DOMAIN c.sets[set_index] :
        \A j \in DOMAIN c.sets[set_index] : j <= i

find_victim_index_MruNewest(c, set_index) ==
    IF c.prediction_mode = "Mru"
    THEN find_victim_index_Newest(c, set_index)
    ELSE MinByKey([w \in DOMAIN c.sets[set_index] |-> StampKey(c, set_index, w)])

\* Cache::find_victim_index
find_victim_index(c, set_index) ==
    CASE c.prediction_mode = "Mru" ->
            MinByKey([w \in DOMAIN c.sets[set_index] |-> StampKey(c, set_index, w)])
      [] c.prediction_mode = "MultiColumn" ->
            CHOOSE w \in DOMAIN c.sets[set_index] :
                \A v \in DOMAIN c.sets[set_index] :
                    v # w => TupleLess(HotTuple(c, set_index, w), HotTuple(c, set_index, v))
      [] c.prediction_mode = "None" ->
            MinByKey([w \in DOMAIN c.sets[set_index] |-> StampKey(c, set_index, w)])

\* The empty slots of a set.
EmptyWays(c, set_index) ==
    { w \in DOMAIN c.sets[set_index] : IsNone(c.sets[set_index][w]) }

install_line_LastEmpty(c, set_index, line) ==
    LET empty == EmptyWays(c, set_index)
    IN IF empty # {}
       THEN LET idx == CHOOSE w \in empty : \A v \in empty : v <= w
            IN [cache |-> [c EXCEPT !.sets[set_index][idx] =
                                      Some([line EXCEPT !.stamp = c.next_stamp])],
                way |-> idx, evicted |-> None]
       ELSE LET idx == find_victim_index(c, set_index)
                victim == Unwrap(c.sets[set_index][idx])
                placed == IF c.prediction_mode = "Mru"
                          THEN [line EXCEPT !.stamp = victim.stamp]
                          ELSE line
            IN [cache |-> [c EXCEPT !.sets[set_index][idx] = Some(placed)],
                way |-> idx,
                evicted |-> Some([line |-> victim, way |-> idx])]

install_line_Fresh(c, set_index, line) ==
    LET empty == EmptyWays(c, set_index)
        placed == [line EXCEPT !.stamp = c.next_stamp]
    IN IF empty # {}
       THEN LET idx == CHOOSE w \in empty : \A v \in empty : w <= v
            IN [cache |-> [c EXCEPT !.sets[set_index][idx] = Some(placed)],
                way |-> idx, evicted |-> None]
       ELSE LET idx == find_victim_index(c, set_index)
            IN [cache |-> [c EXCEPT !.sets[set_index][idx] = Some(placed)],
                way |-> idx,
                evicted |-> Some([line |-> Unwrap(c.sets[set_index][idx]), way |-> idx])]

\* Cache::install_line: the cache afterwards, the way written and the
\* Option<(evicted line, evicted way)>.
install_line(c, set_index, line) ==
    LET empty == EmptyWays(c, set_index)
    IN IF empty # {}
       THEN LET idx == CHOOSE w \in empty : \A v \in empty : w <= v
            IN [cache |-> [c EXCEPT !.sets[set_index][idx] =
                                      Some([line EXCEPT !.stamp = c.next_stamp])],
                way |-> idx, evicted |-> None]
       ELSE LET idx == find_victim_index(c, set_index)
                victim == Unwrap(c.sets[set_index][idx])
                placed == IF c.prediction_mode = "Mru"
                          THEN [line EXCEPT !.stamp = victim.stamp]
                          ELSE line
            IN [cache |-> [c EXCEPT !.sets[set_index][idx] = Some(placed)],
                way |-> idx,
                evicted |-> Some([line |-> victim, way |-> idx])]

\* Cache::update_multi_column_on_hit
update_multi_column_on_hit(c, set_index, block_address, way) ==
    IF IsSome(c.multi_predictor)
    THEN [c EXCEPT !.multi_predictor =
                     Some(MultiColumnPredictor_mark(Unwrap(c.multi_predictor), set_index, block_address, way))]
    ELSE c

\* Cache::multi_column_on_evict
multi_column_on_evict(c, set_index, line, way) ==
    IF IsSome(c.multi_predictor)
    THEN [c EXCEPT !.multi_predictor =
                     Some(MultiColumnPredictor_clear(Unwrap(c.multi_predictor), set_index,
                                  line.block_address, way))]
    ELSE c

\* What one call of process_access did, kept for the properties: the decoded
\* address, the path taken ("hit", "victim_hit" or "miss"), the way written
\* and the Option<(evicted line, evicted way)> install_line returned.
Event(set_index, block_address, tag, outcome, way, evicted) ==
    [set_index |-> set_index, block_address |-> block_address, tag |-> tag,
     outcome |-> outcome, way |-> way, evicted |-> evicted]

\* process_access after install_line returned an eviction: the predictor is
\* cleared and the line offered to the victim buffer.
AfterEvict(c, set_index, evicted) ==
    IF IsNone(evicted) THEN c
    ELSE LET ev == Unwrap(evicted)
             c1 == multi_column_on_evict(c, set_index, ev.line, ev.way)
         IN IF IsSome(c1.victim)
            THEN [c1 EXCEPT !.victim =
                    Some(VictimBuffer_insert(Unwrap(c1.victim), ev.line, c1.next_stamp))]
            ELSE c1

\* Cache::process_access: the cache and the statistics afterwards.
process_access(c, st, access) ==
    LET st1 == CountAccess(st, access.kind)
        block_address == BlockAddress(c, access.address)
        set_index == SetIndex(c, block_address)
        tag == Tag(c, block_address)
        observation == observe_prediction(c, set_index, block_address)
        touched == touch_if_hit(c, set_index, tag)
    IN IF IsSome(touched.hit)
       THEN LET h == Unwrap(touched.hit)
                c1 == update_multi_column_on_hit(touched.cache, set_index,
                                                 block_address, h.way)
                st2 == record_prediction(observation, h.way, h.is_first_hit,
                                         [st1 EXCEPT !.hits = @ + 1])
            IN [cache |-> [c1 EXCEPT !.next_stamp = @ + 1], stats |-> st2,
                event |-> Event(set_index, block_address, tag, "hit", h.way, None)]
       ELSE
         LET taken == IF IsSome(c.victim)
                      THEN VictimBuffer_take(Unwrap(c.victim), block_address)
                      ELSE [vb |-> None, line |-> None]
             c1 == IF IsSome(c.victim)
                   THEN [c EXCEPT !.victim = Some(taken.vb)]
                   ELSE c
         IN IF IsSome(taken.line)
            THEN LET line == [Unwrap(taken.line) EXCEPT !.stamp = c1.next_stamp]
                     inst == install_line(c1, set_index, line)
                     c2 == AfterEvict(inst.cache, set_index, inst.evicted)
                     c3 == IF inst.way \in DOMAIN c2.sets[set_index]
                              /\ IsSome(c2.sets[set_index][inst.way])
                           THEN [c2 EXCEPT !.sets[set_index][inst.way] =
                                   Some(mark_hit(Unwrap(@)).line)]
                           ELSE c2
                     c4 == update_multi_column_on_hit(c3, set_index,
                                                      block_address, inst.way)
                 IN [cache |-> [c4 EXCEPT !.next_stamp = @ + 1],
                     stats |-> [st1 EXCEPT !.hits = @ + 1, !.victim_hits = @ + 1],
                     event |-> Event(set_index, block_address, tag, "victim_hit",
                                     inst.way, inst.evicted)]
            ELSE LET line == CacheLine_new(tag, block_address, c1.next_stamp)
                     inst == install_line(c1, set_index, line)
                     c2 == AfterEvict(inst.cache, set_index, inst.evicted)
                 IN [cache |-> [c2 EXCEPT !.next_stamp = @ + 1],
                     stats |-> [st1 EXCEPT !.misses = @ + 1],
                     event |-> Event(set_index, block_address, tag, "miss",
                                     inst.way, inst.evicted)]

\* ------------------------------------------------------------ state machine
VARIABLES
    cache,      \* the Cache under test
    stats,      \* run_trace's local CacheStats
    trace,      \* the addresses of the accesses processed so far, in order
    last,       \* Option<Event>: what process_access did at the last of them
    base,       \* Option<Cache>: in SpecPair, a second Cache with the same
                \* configuration but prediction None, run over the same trace
    baseStats,  \* Option<CacheStats>: its statistics
    baseLast,   \* Option<Event>: what process_access did in it at the last access
    input,      \* in SpecRun, the slice run_trace was called with; empty in
                \* the specifications that choose each access as they go
    returned,   \* Option<CacheStats>: what run_trace returned, in SpecRun
    unrecalled  \* history: the blocks of the lines evicted from the main sets
                \* and not recalled since, in the order of their evictions

vars == <<cache, stats, trace, last, base, baseStats, baseLast, input, returned,
          unrecalled>>

\* The history of evictions after an access that did e: a recall takes the
\* block's latest eviction out, an eviction is added at the end.
EvictionLog(evictions, e) ==
    LET at == { i \in DOMAIN evictions : evictions[i] = e.block_address }
        open == IF e.outcome = "victim_hit" /\ at # {}
                THEN RemoveAt(evictions, CHOOSE i \in at : \A k \in at : k <= i)
                ELSE evictions
    IN IF IsSome(e.evicted)
       THEN Append(open, Unwrap(e.evicted).line.block_address)
       ELSE open

\* Cache::new(config) and run_trace's CacheStats::new before its loop.
Start(config) ==
    /\ cache = Cache_new(config)
    /\ stats = CacheStats_new(cache.prediction_mode)
    /\ trace = <<>>
    /\ last = None
    /\ input = <<>>
    /\ returned = None
    /\ unrecalled = <<>>

Init ==
    /\ \E config \in Configs : Start(config)
    /\ base = None
    /\ baseStats = None
    /\ baseLast = None

\* One iteration of run_trace's loop: process_access on the next access.
Step(access) ==
    /\ Len(trace) < MaxAccesses
    /\ \E r \in {process_access(cache, stats, access)} :
          /\ cache' = r.cache
          /\ stats' = r.stats
          /\ last' = Some(r.event)
          /\ unrecalled' = EvictionLog(unrecalled, r.event)
    /\ trace' = Append(trace, access.address)
    /\ UNCHANGED <<input, returned>>

Access(access) ==
    /\ Step(access)
    /\ UNCHANGED <<base, baseStats, baseLast>>

Next == \E access \in TraceAccess : Access(access)

Spec == Init /\ [][Next]_vars

\* ------------------------------------------------------------ two runs
\* run_scenarios builds one Cache per scenario and runs each over the same
\* trace: here an Mru scenario and the scenario that differs from it only in
\* prediction None, stepped together.
BaseConfig(config) == [config EXCEPT !.prediction = "None"]

InitPair ==
    \E config \in { c \in Configs : c.prediction = "Mru" } :
        /\ Start(config)
        /\ base = Some(Cache_new(BaseConfig(config)))
        /\ baseStats = Some(CacheStats_new("None"))
        /\ baseLast = None

AccessPair(access) ==
    /\ Step(access)
    /\ \E b \in {process_access(Unwrap(base), Unwrap(baseStats), access)} :
          /\ base' = Some(b.cache)
          /\ baseStats' = Some(b.stats)
          /\ baseLast' = Some(b.event)

NextPair == \E access \in TraceAccess : AccessPair(access)

SpecPair == InitPair /\ [][NextPair]_vars

\* ------------------------------------------------------------ geometries
\* CacheConfig's fields are plain usize values that Cache::new accepts as
\* they are. The (cache_size, block_size, associativity, victim_cache_entries)
\* tuples of the degenerate and the non-power-of-two geometries: block_size
\* above cache_size with associativity 0, associativity 0, cache_size 0, more
\* ways than blocks, three sets, three blocks in two ways, eight blocks in
\* three ways, and four sets of 4-byte blocks.
GeometryShapes ==
    {<<8, 16, 0, 0>>, <<16, 8, 0, 0>>, <<0, 8, 1, 0>>, <<8, 8, 2, 0>>,
     <<24, 8, 1, 0>>, <<24, 8, 2, 1>>, <<32, 4, 3, 0>>, <<16, 4, 1, 0>>}

GeometryConfigs ==
    { Config(g[1], g[2], g[3], g[4], "None") : g \in GeometryShapes }

InitGeometry ==
    /\ \E config \in GeometryConfigs : Start(config)
    /\ base = None
    /\ baseStats = None
    /\ baseLast = None

SpecGeometry == InitGeometry /\ [][Next]_vars

\* ------------------------------------------------------------ Mru runs
\* The runs of the configurations with prediction Mru.
InitMru ==
    /\ \E config \in { c \in Configs : c.prediction = "Mru" } : Start(config)
    /\ base = None
    /\ baseStats = None
    /\ baseLast = None

SpecMru == InitMru /\ [][Next]_vars

\* The runs of the configurations with prediction MultiColumn.
InitMultiColumn ==
    /\ \E config \in { c \in Configs : c.prediction = "MultiColumn" } : Start(config)
    /\ base = None
    /\ baseStats = None
    /\ baseLast = None

SpecMultiColumn == InitMultiColumn /\ [][Next]_vars

\* ------------------------------------------------------------ victim runs
\* The runs of the configurations with a victim buffer.
InitVictim ==
    /\ \E config \in { c \in Configs : c.victim_cache_entries > 0 } : Start(config)
    /\ base = None
    /\ baseStats = None
    /\ baseLast = None

SpecVictim == InitVictim /\ [][Next]_vars

\* ------------------------------------------------------------ run_trace
\* run_trace as a loop over a slice fixed before the call: the caches of
\* 16 bytes with a one-entry victim buffer (2 sets x 1 way and 1 set x 2
\* ways, each prediction mode), every trace of at most MaxTrace accesses.
RunConfigs ==
    { c \in Configs : c.cache_size = 16 /\ c.victim_cache_entries = 1 }

Traces == UNION { [1..l -> TraceAccess] : l \in 0..MaxTrace }

InitRun ==
    /\ \E config \in RunConfigs :
          /\ cache = Cache_new(config)
          /\ stats = CacheStats_new(cache.prediction_mode)
    /\ input \in Traces
    /\ trace = <<>>
    /\ last = None
    /\ returned = None
    /\ unrecalled = <<>>
    /\ base = None
    /\ baseStats = None
    /\ baseLast = None

\* The element the for loop yields after the accesses in tr were processed.
NextAccessReversed(inp, tr) == inp[Len(inp) - Len(tr)]

NextAccess(inp, tr) == inp[Len(tr) + 1]

\* One iteration of the for loop.
Iterate ==
    /\ IsNone(returned)
    /\ Len(trace) < Len(input)
    /\ \E access \in {NextAccess(input, trace)} :
       \E r \in {process_access(cache, stats, access)} :
          /\ cache' = r.cache
          /\ stats' = r.stats
          /\ last' = Some(r.event)
          /\ unrecalled' = EvictionLog(unrecalled, r.event)
          /\ trace' = Append(trace, access.address)
    /\ UNCHANGED <<input, returned, base, baseStats, baseLast>>

\* The slice is exhausted: run_trace returns its stats.
Return ==
    /\ IsNone(returned)
    /\ Len(trace) = Len(input)
    /\ returned' = Some(stats)
    /\ UNCHANGED <<cache, stats, trace, last, input, base, baseStats, baseLast,
                   unrecalled>>

NextRun == Iterate \/ Return

\* What an iteration does to trace: the for loop advances to the next access.
\* A step of NextRun that is a Yield step is an Iterate step.
Yield ==
    /\ IsNone(returned)
    /\ Len(trace) < Len(input)
    /\ trace' = Append(trace, NextAccess(input, trace).address)

\* run_trace is sequential code that nothing suspends: while the slice has
\* accesses left the loop advances to the next one, and once it is exhausted
\* the function returns.
SpecRun == InitRun /\ [][NextRun]_vars /\ WF_trace(Yield) /\ WF_vars(Return)

\* ------------------------------------------------------------ two kinds
\* Two caches of the same configuration run over the same addresses: every
\* access of the first is a Read or a Write, every access of the second a
\* Read. Two runs that each agree with the all-Read run agree with each other.
InitKinds ==
    \E config \in RunConfigs :
        /\ Start(config)
        /\ base = Some(Cache_new(config))
        /\ baseStats = Some(CacheStats_new(config.prediction))
        /\ baseLast = None

AccessKinds(access) ==
    /\ Step(access)
    /\ \E b \in {process_access(Unwrap(base), Unwrap(baseStats),
                                  [kind |-> "Read", address |-> access.address])} :
          /\ base' = Some(b.cache)
          /\ baseStats' = Some(b.stats)
          /\ baseLast' = Some(b.event)

NextKinds == \E access \in TraceAccess : AccessKinds(access)

SpecKinds == InitKinds /\ [][NextKinds]_vars

\* ------------------------------------------------------------ properties
\* The block addresses resident in a set, and those held by the victim buffer.
Resident(c, s) ==
    { Unwrap(c.sets[s][w]).block_address :
        w \in { v \in DOMAIN c.sets[s] : IsSome(c.sets[s][v]) } }

VictimBlocks(c) ==
    IF IsSome(c.victim)
    THEN { Unwrap(c.victim).entries[i].block_address :
             i \in 1..Len(Unwrap(c.victim).entries) }
    ELSE {}

\* The address of the access a step processes, and its decomposition by the
\* configuration (spec 4.1), computed from the configuration alone.
LastAddress(tr) == tr[Len(tr)]
BlockOf(config, address) == address \div config.block_size
SetOf(config, address) == BlockOf(config, address) % num_sets(config)

\* C1. Conservation: after every processed access (hence after run_trace
\* over any trace, in every configuration) hits + misses = accesses and
\* reads + writes = accesses, accesses being the number of accesses processed.
C1_Conservation ==
    /\ stats.hits + stats.misses = stats.accesses
    /\ stats.reads + stats.writes = stats.accesses
    /\ stats.accesses = Len(trace)

\* A run with a victim buffer that saw reads, writes, a primary hit, a victim
\* hit and a miss.
C1_Witness ==
    /\ IsSome(cache.victim)
    /\ stats.reads > 0 /\ stats.writes > 0
    /\ stats.victim_hits > 0 /\ stats.hits > stats.victim_hits
    /\ stats.misses > 0

\* Way w holds the minimum stamp of set s, and no lower way holds it too.
IsOldestWay(c, s, w) ==
    /\ \A v \in DOMAIN c.sets[s] :
          Unwrap(c.sets[s][w]).stamp <= Unwrap(c.sets[s][v]).stamp
    /\ \A v \in DOMAIN c.sets[s] :
          v < w => Unwrap(c.sets[s][v]).stamp > Unwrap(c.sets[s][w]).stamp

C3_Config == Config(16, 8, 2, 0, "None")

\* C3. Baseline LRU eviction: with prediction None, an access that misses in
\* a set whose ways are all occupied evicts the line of the way holding the
\* minimum stamp (the lowest such way) and installs the accessed block in
\* that way. With associativity 2 and one set (cache_size 16, block_size 8,
\* no victim buffer) the blocks 0,1,2 end with block 0 evicted and the blocks
\* 0,1,2,0 with hits = 0 and misses = 4.
C3_BaselineLru ==
    [][ LET e == Unwrap(last')
            s == e.set_index
        IN /\ ( /\ cache.prediction_mode = "None"
                /\ e.outcome # "hit"
                /\ EmptyWays(cache, s) = {} )
              => /\ IsSome(e.evicted)
                 /\ IsOldestWay(cache, s, Unwrap(e.evicted).way)
                 /\ Unwrap(e.evicted).line = Unwrap(cache.sets[s][Unwrap(e.evicted).way])
                 /\ e.way = Unwrap(e.evicted).way
                 /\ Unwrap(cache'.sets[s][e.way]).block_address = e.block_address
                 /\ \A v \in DOMAIN cache.sets[s] :
                       v # e.way => cache'.sets[s][v] = cache.sets[s][v]
           /\ (cache.config = C3_Config /\ trace' = <<0, 8, 16>>)
              => /\ IsSome(e.evicted)
                 /\ Unwrap(e.evicted).line.block_address = 0
           /\ (cache.config = C3_Config /\ trace' = <<0, 8, 16, 0>>)
              => /\ e.outcome = "miss"
                 /\ stats'.hits = 0
                 /\ stats'.misses = 4
      ]_vars

\* The last access of 0,1,2,0 missed and evicted in the example's cache.
C3_Witness ==
    /\ cache.config = C3_Config
    /\ trace = <<0, 8, 16, 0>>
    /\ Unwrap(last).outcome = "miss"
    /\ IsSome(Unwrap(last).evicted)

\* C4. Disjoint-set non-eviction: an access whose address decodes to set s
\* leaves every other set as it was; an access to a block resident in its
\* set is a hit and leaves the set's other lines in place. With cache_size 64,
\* block_size 8, associativity 2 (4 sets) the addresses 0,8,16,24,0 give
\* hits = 1, misses = 4, accesses = 5.
C4_DisjointSets ==
    [][ LET a == LastAddress(trace')
            s == SetOf(cache.config, a)
            b == BlockOf(cache.config, a)
        IN /\ num_sets(Config(64, 8, 2, 0, "None")) = 4
           /\ \A t \in DOMAIN cache.sets : t # s => cache'.sets[t] = cache.sets[t]
           /\ \A t \in DOMAIN cache.sets : t # s => Resident(cache, t) \subseteq Resident(cache', t)
           /\ b \in Resident(cache, s)
                => /\ Unwrap(last').outcome = "hit"
                   /\ Resident(cache', s) = Resident(cache, s)
           /\ ( /\ cache.config.cache_size = 64
                /\ cache.config.block_size = 8
                /\ cache.config.associativity = 2
                /\ trace' = <<0, 8, 16, 24, 0>> )
              => /\ stats'.hits = 1
                 /\ stats'.misses = 4
                 /\ stats'.accesses = 5
      ]_vars

\* The example's trace ran in the example's geometry, its last access a hit
\* on a line that four accesses to other sets left alone.
C4_Witness ==
    /\ cache.config.cache_size = 64
    /\ cache.config.associativity = 2
    /\ trace = <<0, 8, 16, 24, 0>>
    /\ Unwrap(last).outcome = "hit"
    /\ Unwrap(last).set_index = 0

\* C5. Victim buffer recall: with victim_entries > 0 a line evicted from a
\* main set is in the victim buffer after the same access, stamped with that
\* access's tick; an access to a block the victim buffer holds (and the main
\* set does not) takes the entry out of the buffer, installs the block in
\* its main set and counts hits + 1, victim_hits + 1, misses unchanged. With
\* associativity 1, victim_entries 1 and one set, the blocks 0,1,0 give
\* hits = 1, victim_hits = 1, misses = 2.
C5_VictimRecall ==
    [][ LET e == Unwrap(last')
            s == e.set_index
            b == BlockOf(cache.config, LastAddress(trace'))
        IN /\ (cache.config.victim_cache_entries > 0 /\ IsSome(e.evicted))
              => LET entries == Unwrap(cache'.victim).entries
                 IN /\ Len(entries) > 0
                    /\ entries[Len(entries)] =
                         [Unwrap(e.evicted).line EXCEPT !.stamp = cache.next_stamp]
           /\ (b \in VictimBlocks(cache) /\ b \notin Resident(cache, s))
              => /\ e.outcome = "victim_hit"
                 /\ b \notin VictimBlocks(cache')
                 /\ b \in Resident(cache', s)
                 /\ stats'.hits = stats.hits + 1
                 /\ stats'.victim_hits = stats.victim_hits + 1
                 /\ stats'.misses = stats.misses
           /\ ( /\ cache.config.cache_size = 8
                /\ cache.config.associativity = 1
                /\ cache.config.victim_cache_entries = 1
                /\ trace' = <<0, 8, 0>> )
              => /\ stats'.hits = 1
                 /\ stats'.victim_hits = 1
                 /\ stats'.misses = 2
      ]_vars

\* The example: the third access recalled block 0 from the victim buffer and
\* its reinstall evicted block 1 into the buffer.
C5_Witness ==
    /\ cache.config.cache_size = 8
    /\ cache.config.victim_cache_entries = 1
    /\ trace = <<0, 8, 0>>
    /\ Unwrap(last).outcome = "victim_hit"
    /\ IsSome(Unwrap(last).evicted)
    /\ VictimBlocks(cache) = {1}

\* The column of a block in a cache of this configuration (spec 4.4).
ColumnOf(config, columns, block_address) ==
    (block_address \div num_sets(config)) % columns

\* C6. MultiColumn bit-vector invariant: in MultiColumn mode, after every
\* access, bit w of bits[s,c] is set if and only if way w of set s holds a
\* line whose column is c.
C6_BitVectorIff ==
    cache.prediction_mode = "MultiColumn" =>
        LET mc == Unwrap(cache.multi_predictor)
        IN \A s \in DOMAIN cache.sets :
             \A col \in 0..(mc.columns - 1) :
               \A w \in DOMAIN cache.sets[s] :
                 (BitAt(mc.bits[s * mc.columns + col], w) = 1)
                   <=> ( /\ IsSome(cache.sets[s][w])
                         /\ ColumnOf(cache.config, mc.columns,
                                     Unwrap(cache.sets[s][w]).block_address) = col )

\* The occupied (set, way) slots, and the number of lines evicted so far:
\* every miss and every victim hit installs one line, every eviction removes
\* one.
Occupied(c) ==
    { sw \in (DOMAIN c.sets) \X (0..(Ways(c.config) - 1)) :
        IsSome(c.sets[sw[1]][sw[2]]) }

Evictions(c, st) == st.misses + st.victim_hits - Cardinality(Occupied(c))

EvictedBlock(e) ==
    IF IsSome(e.evicted) THEN Some(Unwrap(e.evicted).line.block_address) ELSE None

\* C7 as stated. Way prediction does not change outcomes: the Mru run and
\* the None run of the same geometry, victim_entries and trace have the same
\* outcome at every access, hence the same hits, misses and victim_hits.
C7_SameOutcome ==
    IsSome(last) =>
        /\ Unwrap(last).outcome = Unwrap(baseLast).outcome
        /\ stats.hits = Unwrap(baseStats).hits
        /\ stats.misses = Unwrap(baseStats).misses
        /\ stats.victim_hits = Unwrap(baseStats).victim_hits

\* C7 as amended. The Mru run and the None run have the same outcome, write
\* the same way and evict the same block at every access up to and including
\* the first access that evicts a line, and at every access when the cache
\* has one way.
C7_SameUntilEviction ==
    IsSome(last) =>
        LET e == Unwrap(last)
            b == Unwrap(baseLast)
            before == Evictions(Unwrap(base), Unwrap(baseStats))
                        - (IF IsSome(b.evicted) THEN 1 ELSE 0)
        IN (before = 0 \/ Ways(cache.config) = 1)
             => /\ e.outcome = b.outcome
                /\ e.way = b.way
                /\ EvictedBlock(e) = EvictedBlock(b)
                /\ stats.hits = Unwrap(baseStats).hits
                /\ stats.misses = Unwrap(baseStats).misses
                /\ stats.victim_hits = Unwrap(baseStats).victim_hits

\* The first eviction of a run in a two-way cache has just happened.
C7_Witness ==
    /\ IsSome(last)
    /\ Ways(cache.config) = 2
    /\ IsSome(Unwrap(baseLast).evicted)
    /\ IsSome(Unwrap(last).evicted)
    /\ Evictions(Unwrap(base), Unwrap(baseStats)) = 1

\* C8. Set invariant: every set keeps max(1, associativity) ways, and the
\* tags of its occupied ways are pairwise distinct, in every prediction mode
\* and after reinstalls from the victim buffer.
C8_SetInvariant ==
    /\ DOMAIN cache.sets = 0..(num_sets(cache.config) - 1)
    /\ \A s \in DOMAIN cache.sets :
         /\ DOMAIN cache.sets[s] = 0..(Max(1, cache.config.associativity) - 1)
         /\ \A w, v \in DOMAIN cache.sets[s] :
              (w # v /\ IsSome(cache.sets[s][w]) /\ IsSome(cache.sets[s][v]))
                => Unwrap(cache.sets[s][w]).tag # Unwrap(cache.sets[s][v]).tag

\* A victim hit reinstalled a line into a full two-way set.
C8_Witness ==
    /\ IsSome(last)
    /\ Unwrap(last).outcome = "victim_hit"
    /\ IsSome(Unwrap(last).evicted)
    /\ Ways(cache.config) = 2

\* C9. Victim buffer capacity: the victim buffer never holds more than
\* victim_cache_entries entries, also after a victim hit whose reinstall
\* evicts a line back into it; with victim_cache_entries = 0 there is no
\* buffer and victim_hits stays 0.
C9_VictimCapacity ==
    /\ cache.config.victim_cache_entries > 0
         => /\ IsSome(cache.victim)
            /\ Unwrap(cache.victim).capacity = cache.config.victim_cache_entries
            /\ Len(Unwrap(cache.victim).entries) <= cache.config.victim_cache_entries
    /\ cache.config.victim_cache_entries = 0
         => /\ IsNone(cache.victim)
            /\ stats.victim_hits = 0

\* A victim hit evicted a main-set line back into the full buffer.
C9_Witness ==
    /\ IsSome(last)
    /\ Unwrap(last).outcome = "victim_hit"
    /\ IsSome(Unwrap(last).evicted)
    /\ Len(Unwrap(cache.victim).entries) = cache.config.victim_cache_entries

\* The rate accessors of a CacheStats.
Rates(st) ==
    <<hit_rate(st), victim_hit_ratio(st)>>
      \o (IF IsSome(st.prediction)
          THEN <<first_hit_rate(Unwrap(st.prediction)),
                 non_first_hit_rate(Unwrap(st.prediction)),
                 avg_bit_vector_search(Unwrap(st.prediction))>>
          ELSE <<>>)

\* C10. Empty-trace rate guards: after an empty trace every counter is 0 and
\* every rate accessor returns 0.0; in every state an accessor whose
\* denominator counter is 0 returns 0.0, and no accessor divides by 0.
C10_RateGuards ==
    /\ trace = <<>> =>
         /\ stats.accesses = 0 /\ stats.reads = 0 /\ stats.writes = 0
         /\ stats.hits = 0 /\ stats.misses = 0 /\ stats.victim_hits = 0
         /\ IsSome(stats.prediction) =>
              LET ps == Unwrap(stats.prediction)
              IN /\ ps.first_hits = 0 /\ ps.non_first_hits = 0
                 /\ ps.total_hits_observed = 0
                 /\ ps.bit_vector_search_total = 0
                 /\ ps.bit_vector_observations = 0
         /\ \A i \in DOMAIN Rates(stats) : Rates(stats)[i] = ZeroRate
    /\ stats.accesses = 0 => hit_rate(stats) = ZeroRate
    /\ stats.hits = 0 => victim_hit_ratio(stats) = ZeroRate
    /\ IsSome(stats.prediction) =>
         LET ps == Unwrap(stats.prediction)
         IN /\ ps.total_hits_observed = 0
                => /\ first_hit_rate(ps) = ZeroRate
                   /\ non_first_hit_rate(ps) = ZeroRate
            /\ ps.bit_vector_observations = 0
                => avg_bit_vector_search(ps) = ZeroRate
    /\ \A i \in DOMAIN Rates(stats) : Rates(stats)[i][2] # 0

\* A run with prediction enabled that processed accesses without any hit:
\* hit_rate divides, the other four accessors take their guard.
C10_Witness ==
    /\ stats.accesses > 0
    /\ stats.hits = 0
    /\ IsSome(stats.prediction)
    /\ Unwrap(stats.prediction).total_hits_observed = 0
    /\ Unwrap(stats.prediction).bit_vector_observations = 0
    /\ hit_rate(stats) = <<0, stats.accesses>>

\* C11. Address decomposition and normalization: for every configuration
\* with block_size > 0 (also with associativity 0 or block_size >= cache_size)
\* there is at least one set and every set has max(1, associativity) >= 1
\* ways; every access decodes to set_index = block_address mod num_sets,
\* below num_sets, and tag = block_address div num_sets, with block_address =
\* tag * num_sets + set_index; two addresses decode to the same (set, tag)
\* iff they have the same block address (a property of the configuration,
\* evaluated on the new cache), and a resident line matches an address by
\* set and tag iff it holds the address's block.
C11_Decomposition ==
    cache.config.block_size > 0 =>
      LET n == cache.num_sets
      IN /\ n = num_sets(cache.config)
         /\ n >= 1
         /\ Cardinality(DOMAIN cache.sets) = n
         /\ \A s \in DOMAIN cache.sets :
               /\ Cardinality(DOMAIN cache.sets[s]) = Max(1, cache.config.associativity)
               /\ Cardinality(DOMAIN cache.sets[s]) >= 1
         /\ IsSome(last) =>
               LET e == Unwrap(last)
                   b == LastAddress(trace) \div cache.config.block_size
               IN /\ e.block_address = b
                  /\ e.set_index = b % n
                  /\ e.set_index \in 0..(n - 1)
                  /\ e.tag = b \div n
                  /\ b = e.tag * n + e.set_index
                  /\ Unwrap(cache.sets[e.set_index][e.way]).tag = e.tag
                  /\ Unwrap(cache.sets[e.set_index][e.way]).block_address = b
         /\ trace = <<>> =>
               \A a1, a2 \in 0..63 :
                 LET b1 == BlockAddress(cache, a1)
                     b2 == BlockAddress(cache, a2)
                 IN ( /\ SetIndex(cache, b1) = SetIndex(cache, b2)
                      /\ Tag(cache, b1) = Tag(cache, b2) ) <=> (b1 = b2)
         /\ \A a \in 0..63 :
               \A s \in DOMAIN cache.sets :
                 \A w \in DOMAIN cache.sets[s] :
                   IsSome(cache.sets[s][w]) =>
                     LET b == BlockAddress(cache, a)
                     IN ( /\ s = SetIndex(cache, b)
                          /\ Unwrap(cache.sets[s][w]).tag = Tag(cache, b) )
                        <=> (Unwrap(cache.sets[s][w]).block_address = b)

\* With block_size above cache_size and associativity 0 (one set of one way),
\* two different addresses of one block: the second hit the line of the first.
C11_Witness ==
    /\ cache.config.block_size > cache.config.cache_size
    /\ cache.config.associativity = 0
    /\ Len(trace) = 2
    /\ trace[1] # trace[2]
    /\ Unwrap(last).outcome = "hit"

\* The number of accesses of a kind in a trace.
CountKind(inp, kind) == Cardinality({ i \in DOMAIN inp : inp[i].kind = kind })

\* C12. Complete in-order processing: run_trace over a finite trace of length
\* n processes the accesses one by one in trace order (what it has processed
\* is always a prefix of the trace, counted in accesses), and it terminates:
\* it returns, after the whole trace was processed with each access counted
\* once, stats with accesses = n.
C12_CompleteInOrder ==
    /\ [] ( /\ Len(trace) <= Len(input)
            /\ \A i \in DOMAIN trace : trace[i] = input[i].address
            /\ stats.accesses = Len(trace)
            /\ IsSome(returned) => Len(trace) = Len(input) )
    /\ <>[] ( /\ IsSome(returned)
              /\ Unwrap(returned) = stats
              /\ Unwrap(returned).accesses = Len(input)
              /\ Unwrap(returned).reads = CountKind(input, "Read")
              /\ Unwrap(returned).writes = CountKind(input, "Write")
              /\ Len(trace) = Len(input) )

\* run_trace returned from a trace of three accesses to different addresses
\* that ended with a hit.
C12_Witness ==
    /\ IsSome(returned)
    /\ Len(input) = 3
    /\ input[1].address # input[2].address
    /\ input[2].address # input[3].address
    /\ Unwrap(last).outcome = "hit"
    /\ Unwrap(returned).accesses = 3

\* The stamps stored in the sets and in the victim buffer.
SetStamps(c) ==
    { Unwrap(c.sets[sw[1]][sw[2]]).stamp : sw \in Occupied(c) }

VictimStamps(c) ==
    IF IsSome(c.victim)
    THEN { Unwrap(c.victim).entries[i].stamp :
             i \in 1..Len(Unwrap(c.victim).entries) }
    ELSE {}

\* C13. Tick discipline: next_stamp grows by exactly one per processed access
\* on each of the three paths, so after k accesses it is its initial value
\* plus k; the increment comes after the access's mutation (the line a
\* primary hit touched and the line an access sent to the victim buffer
\* carry the tick before the increment), and every stamp stored in a set or
\* in the victim buffer is strictly below the current tick.
C13_TickDiscipline ==
    /\ cache.next_stamp = Cache_new(cache.config).next_stamp + Len(trace)
    /\ \A t \in SetStamps(cache) \cup VictimStamps(cache) : t < cache.next_stamp
    /\ IsSome(last) =>
         LET e == Unwrap(last)
         IN /\ e.outcome = "hit"
                => Unwrap(cache.sets[e.set_index][e.way]).stamp = cache.next_stamp - 1
            /\ (IsSome(e.evicted) /\ IsSome(cache.victim))
                => LET entries == Unwrap(cache.victim).entries
                   IN entries[Len(entries)].stamp = cache.next_stamp - 1

\* A run that took the three paths: a miss, a primary hit and a victim hit,
\* with lines in the set and in the victim buffer.
C13_Witness ==
    /\ stats.misses > 0
    /\ stats.victim_hits > 0
    /\ stats.hits > stats.victim_hits
    /\ SetStamps(cache) # {}
    /\ VictimStamps(cache) # {}
    /\ cache.next_stamp = Len(trace) + 1

\* The stamp of the line the last access hit or installed, and the stamps of
\* the other resident lines.
WrittenStamp(c, e) == Unwrap(c.sets[e.set_index][e.way]).stamp

OtherStamps(c, e) ==
    { Unwrap(c.sets[sw[1]][sw[2]]).stamp :
        sw \in Occupied(c) \ {<<e.set_index, e.way>>} }

\* C14 as stated. Recency stamps are never reused: in every prediction mode
\* the line an access installs or hits is stamped with the access's tick,
\* hence above every stamp written before, and it receives no stamp another
\* line held.
C14_FreshStamp ==
    IsSome(last) =>
        LET e == Unwrap(last)
        IN /\ WrittenStamp(cache, e) = cache.next_stamp - 1
           /\ \A t \in OtherStamps(cache, e) : t < WrittenStamp(cache, e)
           /\ IsSome(e.evicted) => WrittenStamp(cache, e) # Unwrap(e.evicted).line.stamp

\* C14 as amended. A hit, an install into an empty way, and with prediction
\* None or MultiColumn an evicting install, stamp the line with the access's
\* tick, above every stamp of every other resident line; an evicting install
\* with prediction Mru gives the line the stamp the evicted line held, which
\* is below the access's tick.
C14_FreshStampUnlessLip ==
    IsSome(last) =>
        LET e == Unwrap(last)
        IN IF cache.prediction_mode = "Mru" /\ IsSome(e.evicted)
           THEN /\ WrittenStamp(cache, e) = Unwrap(e.evicted).line.stamp
                /\ WrittenStamp(cache, e) < cache.next_stamp - 1
           ELSE /\ WrittenStamp(cache, e) = cache.next_stamp - 1
                /\ \A t \in OtherStamps(cache, e) : t < WrittenStamp(cache, e)

\* An evicting install with prediction Mru in a two-way set, and other lines
\* resident.
C14_Witness ==
    /\ IsSome(last)
    /\ cache.prediction_mode = "Mru"
    /\ IsSome(Unwrap(last).evicted)
    /\ Ways(cache.config) = 2
    /\ WrittenStamp(cache, Unwrap(last)) = Unwrap(Unwrap(last).evicted).line.stamp
    /\ OtherStamps(cache, Unwrap(last)) # {}

\* The run of a new cache over the addresses tr, and with it what the last
\* access did and, per set, the block of the line the last evicting install
\* put there, if no access has hit that line since.
RECURSIVE Replay(_, _)
Replay(config, tr) ==
    IF tr = <<>>
    THEN [cache |-> Cache_new(config),
          stats |-> CacheStats_new(config.prediction),
          last |-> None,
          pending |-> [s \in 0..(num_sets(config) - 1) |-> None]]
    ELSE LET prev == Replay(config, SubSeq(tr, 1, Len(tr) - 1))
             r == process_access(prev.cache, prev.stats,
                                 [kind |-> "Read", address |-> tr[Len(tr)]])
             e == r.event
         IN [cache |-> r.cache,
             stats |-> r.stats,
             last |-> Some(e),
             pending |->
               IF IsSome(e.evicted)
               THEN [prev.pending EXCEPT ![e.set_index] = Some(e.block_address)]
               ELSE IF prev.pending[e.set_index] = Some(e.block_address)
               THEN [prev.pending EXCEPT ![e.set_index] = None]
               ELSE prev.pending]

\* The stamps of the lines of the set the last access wrote, its own way
\* excepted.
OtherStampsInSet(c, e) ==
    { Unwrap(c.sets[e.set_index][w]).stamp :
        w \in { v \in DOMAIN c.sets[e.set_index] :
                  v # e.way /\ IsSome(c.sets[e.set_index][v]) } }

\* C15. LIP insertion in Mru mode: when a miss or a victim-buffer recall
\* evicts from a full set, the evicted line is the one with the minimum
\* stamp of the set and the installed line takes its stamp, so the installed
\* line is the least recently used of its set; and if an earlier evicting
\* install put a line in this set that no access has hit since, that line is
\* the one evicted now, whatever hits the other lines took in between.
C15_LipInsertion ==
    (cache.prediction_mode = "Mru" /\ IsSome(last) /\ IsSome(Unwrap(last).evicted)) =>
        LET e == Unwrap(last)
            ev == Unwrap(e.evicted)
            before == Replay(cache.config, SubSeq(trace, 1, Len(trace) - 1))
        IN /\ EmptyWays(before.cache, e.set_index) = {}
           /\ ev.line = Unwrap(before.cache.sets[e.set_index][ev.way])
           /\ \A w \in DOMAIN before.cache.sets[e.set_index] :
                 w # ev.way =>
                   ev.line.stamp < Unwrap(before.cache.sets[e.set_index][w]).stamp
           /\ WrittenStamp(cache, e) = ev.line.stamp
           /\ \A t \in OtherStampsInSet(cache, e) : WrittenStamp(cache, e) < t
           /\ IsSome(before.pending[e.set_index])
                => ev.line.block_address = Unwrap(before.pending[e.set_index])

\* One set of two ways, blocks 0,1,2,1,3: block 2 was installed over block 0,
\* block 1 was hit, and the miss on block 3 evicted block 2.
C15_Witness ==
    /\ cache.prediction_mode = "Mru"
    /\ Ways(cache.config) = 2
    /\ trace = <<0, 8, 16, 8, 24>>
    /\ Replay(cache.config, <<0, 8, 16, 8>>).pending[0] = Some(2)
    /\ Unwrap(last).outcome = "miss"
    /\ IsSome(Unwrap(last).evicted)
    /\ Unwrap(Unwrap(last).evicted).line.block_address = 2

\* hot_bit of way w of set s: bit w of the bit-vector of the column of the
\* line resident in w (spec 4.2, 4.4).
HotBit(c, s, w) ==
    LET mc == Unwrap(c.multi_predictor)
        col == ColumnOf(c.config, mc.columns, Unwrap(c.sets[s][w]).block_address)
    IN BitAt(mc.bits[s * mc.columns + col], w)

\* C16. MultiColumn victim selection: in MultiColumn mode an access that
\* evicts from a full set evicts the way minimizing (hot_bit, stamp, way),
\* hot_bit taken from the predictor as it is before the access; so the
\* evicted way's bit is set only if every way's bit is set, and among the ways
\* with the evicted way's hot_bit the evicted line has the oldest stamp.
C16_MultiColumnVictim ==
    [][ (cache.prediction_mode = "MultiColumn" /\ IsSome(Unwrap(last').evicted)) =>
          LET e == Unwrap(last')
              s == e.set_index
              ev == Unwrap(e.evicted)
          IN /\ EmptyWays(cache, s) = {}
             /\ ev.line = Unwrap(cache.sets[s][ev.way])
             /\ e.way = ev.way
             /\ \A w \in DOMAIN cache.sets[s] :
                   w # ev.way =>
                     LET line == Unwrap(cache.sets[s][w])
                     IN \/ HotBit(cache, s, ev.way) < HotBit(cache, s, w)
                        \/ /\ HotBit(cache, s, ev.way) = HotBit(cache, s, w)
                           /\ ev.line.stamp < line.stamp
                        \/ /\ HotBit(cache, s, ev.way) = HotBit(cache, s, w)
                           /\ ev.line.stamp = line.stamp
                           /\ ev.way < w
             /\ HotBit(cache, s, ev.way) = 1
                  => \A w \in DOMAIN cache.sets[s] : HotBit(cache, s, w) = 1
      ]_vars

\* One set of two ways, blocks 0,0,1,2: way 0 holds block 0 with the older
\* stamp and its bit set, way 1 holds block 1 with its bit clear; the miss on
\* block 2 evicted block 1.
C16_Witness ==
    /\ cache.prediction_mode = "MultiColumn"
    /\ trace = <<0, 0, 8, 16>>
    /\ IsSome(Unwrap(last).evicted)
    /\ Unwrap(Unwrap(last).evicted).way = 1
    /\ Unwrap(Unwrap(last).evicted).line.block_address = 1
    /\ LET pre == Replay(cache.config, <<0, 0, 8>>).cache
       IN /\ HotBit(pre, 0, 0) = 1
          /\ HotBit(pre, 0, 1) = 0
          /\ Unwrap(pre.sets[0][0]).stamp < Unwrap(pre.sets[0][1]).stamp

\* The ways of set s holding the maximum stamp of the set.
NewestWays(c, s) ==
    { w \in DOMAIN c.sets[s] :
        /\ IsSome(c.sets[s][w])
        /\ \A v \in DOMAIN c.sets[s] :
              IsSome(c.sets[s][v])
                => Unwrap(c.sets[s][v]).stamp <= Unwrap(c.sets[s][w]).stamp }

\* C17. Mru prediction scoring: in Mru mode a primary hit adds one to
\* first_hits if the way that hit is the way that held the maximum stamp of
\* the addressed set before the access, and one to non_first_hits otherwise.
C17_MruScoring ==
    ( /\ cache.prediction_mode = "Mru"
      /\ IsSome(last)
      /\ Unwrap(last).outcome = "hit" ) =>
        LET e == Unwrap(last)
            before == Replay(cache.config, SubSeq(trace, 1, Len(trace) - 1))
            ps0 == Unwrap(before.stats.prediction)
            ps == Unwrap(stats.prediction)
        IN IF e.way \in NewestWays(before.cache, e.set_index)
           THEN /\ ps.first_hits = ps0.first_hits + 1
                /\ ps.non_first_hits = ps0.non_first_hits
           ELSE /\ ps.first_hits = ps0.first_hits
                /\ ps.non_first_hits = ps0.non_first_hits + 1

\* The rank of a hit on actual_way against the snapshot bits (spec 4.4):
\* 1 + the number of set bits below the way's bit if that bit is set, the
\* number of set bits otherwise (0 for an all-zero snapshot). Only the bits
\* of the ways 0..ways-1 of a set are ever written.
Rank(bits, actual_way, ways) ==
    IF BitAt(bits, actual_way) = 1
    THEN 1 + Cardinality({ w \in 0..(actual_way - 1) : BitAt(bits, w) = 1 })
    ELSE Cardinality({ w \in 0..(ways - 1) : BitAt(bits, w) = 1 })

\* The snapshot observe returns for a block in a cache.
Snapshot(c, s, block_address) ==
    LET mc == Unwrap(c.multi_predictor)
    IN mc.bits[s * mc.columns + ColumnOf(c.config, mc.columns, block_address)]

\* C18. MultiColumn first-hit classification: in MultiColumn mode a primary
\* hit adds one to first_hits if its rank against the snapshot taken before
\* the access is 1, and one to non_first_hits otherwise, also when the
\* snapshot is 0.
C18_MultiColumnFirstHit ==
    ( /\ cache.prediction_mode = "MultiColumn"
      /\ IsSome(last)
      /\ Unwrap(last).outcome = "hit" ) =>
        LET e == Unwrap(last)
            before == Replay(cache.config, SubSeq(trace, 1, Len(trace) - 1))
            bits == Snapshot(before.cache, e.set_index, e.block_address)
            ps0 == Unwrap(before.stats.prediction)
            ps == Unwrap(stats.prediction)
        IN IF Rank(bits, e.way, Ways(cache.config)) = 1
           THEN /\ ps.first_hits = ps0.first_hits + 1
                /\ ps.non_first_hits = ps0.non_first_hits
           ELSE /\ ps.first_hits = ps0.first_hits
                /\ ps.non_first_hits = ps0.non_first_hits + 1

\* C19. MultiColumn search accounting: in MultiColumn mode every primary hit,
\* and no other access, adds one to bit_vector_observations, and it adds to
\* bit_vector_search_total its rank against the snapshot taken before the
\* access (0 for an all-zero snapshot); hence bit_vector_search_total <=
\* ways * bit_vector_observations.
C19_SearchAccounting ==
    [][ cache.prediction_mode = "MultiColumn" =>
          LET e == Unwrap(last')
              bits == Snapshot(cache, e.set_index, e.block_address)
              ps0 == Unwrap(stats.prediction)
              ps == Unwrap(stats'.prediction)
          IN /\ e.outcome = "hit" =>
                  /\ ps.bit_vector_observations = ps0.bit_vector_observations + 1
                  /\ ps.bit_vector_search_total =
                       ps0.bit_vector_search_total + Rank(bits, e.way, Ways(cache.config))
                  /\ bits = 0 => ps.bit_vector_search_total = ps0.bit_vector_search_total
             /\ e.outcome # "hit" =>
                  /\ ps.bit_vector_observations = ps0.bit_vector_observations
                  /\ ps.bit_vector_search_total = ps0.bit_vector_search_total
             /\ ps.bit_vector_observations = stats'.hits - stats'.victim_hits
             /\ ps.bit_vector_search_total
                  <= Ways(cache.config) * ps.bit_vector_observations
      ]_vars

\* One set of two ways, blocks 0,2,2,0: the hit on block 2 saw an all-zero
\* snapshot, the hit on block 0 (way 0) a snapshot with only way 1's bit and
\* was charged the population count.
C19_Witness ==
    /\ cache.prediction_mode = "MultiColumn"
    /\ trace = <<0, 16, 16, 0>>
    /\ Unwrap(last).outcome = "hit"
    /\ Unwrap(last).way = 0
    /\ Snapshot(Replay(cache.config, <<0, 16, 16>>).cache, 0, 0) = 2
    /\ Unwrap(stats.prediction).bit_vector_observations = 2
    /\ Unwrap(stats.prediction).bit_vector_search_total = 1

\* C20. Per-line first-touch classification: a miss installs its line with
\* the first-touch flag pending, a recall from the victim buffer installs it
\* with the flag cleared (the recall is the line's hit), a primary hit
\* clears the flag of the line it hits, and no access changes another
\* resident line; a primary hit is classified as first iff the flag of the
\* hit line was pending, so iff the line took no hit since it was installed
\* (a hit that directly follows an access to the same block is first iff
\* that access was a miss), and with prediction enabled it adds one to
\* first_hits if first and one to non_first_hits if not; no other access
\* changes these counters. Hence each installed line yields at most one
\* first hit until it is installed again.
C20_FirstTouch ==
    [][ LET e == Unwrap(last')
            s == e.set_index
            written == Unwrap(cache'.sets[s][e.way])
            first == IF IsSome(stats.prediction)
                     THEN Unwrap(stats.prediction).first_hits ELSE 0
            non_first == IF IsSome(stats.prediction)
                         THEN Unwrap(stats.prediction).non_first_hits ELSE 0
            first_after == IF IsSome(stats'.prediction)
                           THEN Unwrap(stats'.prediction).first_hits ELSE 0
            non_first_after == IF IsSome(stats'.prediction)
                               THEN Unwrap(stats'.prediction).non_first_hits ELSE 0
        IN /\ e.outcome = "miss" => ~written.has_received_hit
           /\ e.outcome = "victim_hit" => written.has_received_hit
           /\ e.outcome # "hit" => first_after = first /\ non_first_after = non_first
           /\ e.outcome = "hit" =>
                LET pending == ~Unwrap(cache.sets[s][e.way]).has_received_hit
                IN /\ written.has_received_hit
                   /\ IsSome(last) /\ Unwrap(last).block_address = e.block_address
                        => (pending <=> Unwrap(last).outcome = "miss")
                   /\ IsSome(stats.prediction) =>
                        IF pending
                        THEN first_after = first + 1 /\ non_first_after = non_first
                        ELSE first_after = first /\ non_first_after = non_first + 1
           /\ \A t \in DOMAIN cache.sets :
                 \A w \in DOMAIN cache.sets[t] :
                   <<t, w>> # <<s, e.way>> => cache'.sets[t][w] = cache.sets[t][w]
      ]_vars

\* One way with a victim buffer, blocks 0,0,1,0,0: the first hit on block 0
\* was a first hit, the line was evicted and recalled, and its next hit was
\* not a first hit.
C20_Witness ==
    /\ IsSome(stats.prediction)
    /\ Ways(cache.config) = 1
    /\ trace = <<0, 0, 8, 0, 0>>
    /\ Unwrap(Replay(cache.config, <<0, 0, 8, 0>>).last).outcome = "victim_hit"
    /\ Unwrap(last).outcome = "hit"
    /\ Unwrap(stats.prediction).first_hits = 1
    /\ Unwrap(stats.prediction).non_first_hits = 1

\* The entries of the victim buffer, <<>> when there is none.
VictimEntries(c) ==
    IF IsSome(c.victim) THEN Unwrap(c.victim).entries ELSE <<>>

\* C21. Empty-slot install: an access that misses the main set (a true miss
\* or a recall from the victim buffer) in a set with an empty way installs
\* the line in the lowest empty way with the current tick as stamp, evicts
\* nothing, leaves the other ways of the set as they were and inserts
\* nothing into the victim buffer; a line is evicted only from a set whose
\* ways are all occupied.
C21_EmptySlotInstall ==
    [][ LET e == Unwrap(last')
            s == e.set_index
            empty == EmptyWays(cache, s)
        IN /\ (e.outcome # "hit" /\ empty # {}) =>
                /\ e.way \in empty
                /\ \A v \in empty : e.way <= v
                /\ IsSome(cache'.sets[s][e.way])
                /\ Unwrap(cache'.sets[s][e.way]).block_address = e.block_address
                /\ Unwrap(cache'.sets[s][e.way]).stamp = cache.next_stamp
                /\ IsNone(e.evicted)
                /\ \A v \in DOMAIN cache.sets[s] :
                      v # e.way => cache'.sets[s][v] = cache.sets[s][v]
                /\ e.outcome = "miss" => cache'.victim = cache.victim
                /\ \A i \in DOMAIN VictimEntries(cache') :
                      \E k \in DOMAIN VictimEntries(cache) :
                        VictimEntries(cache')[i] = VictimEntries(cache)[k]
           /\ IsSome(e.evicted) => empty = {}
      ]_vars

\* One set of two ways with a victim buffer, blocks 0,1: the second miss
\* found way 0 occupied and installed block 1 in way 1 with its tick.
C21_Witness ==
    /\ Ways(cache.config) = 2
    /\ IsSome(cache.victim)
    /\ trace = <<0, 8>>
    /\ Unwrap(last).outcome = "miss"
    /\ Unwrap(last).way = 1
    /\ IsNone(Unwrap(last).evicted)
    /\ Unwrap(cache.sets[0][1]).stamp = 2
    /\ Unwrap(cache.sets[0][0]).block_address = 0
    /\ VictimEntries(cache) = <<>>

\* The block addresses of a sequence of lines.
BlocksOf(entries) == [i \in DOMAIN entries |-> entries[i].block_address]

\* The last n elements of a sequence, all of it when it is shorter.
LastN(seq, n) == SubSeq(seq, Max(1, Len(seq) - n + 1), Len(seq))

\* C22. Victim buffer replacement: the insert of an evicted line stamps it
\* with the tick of the access; when the buffer (after a recall took its
\* entry out) already holds capacity entries, the entry with the smallest
\* stamp, the first such, is removed first, and exactly that one; below
\* capacity nothing is removed; an access that evicts nothing inserts
\* nothing. Hence the buffer holds the most recently evicted, at most
\* capacity, lines that have not been recalled, oldest first.
C22_VictimReplacement ==
    [][ IsSome(cache.victim) =>
        LET e == Unwrap(last')
            held == VictimEntries(cache)
            at == { i \in DOMAIN held : held[i].block_address = e.block_address }
            taken == IF e.outcome = "victim_hit"
                     THEN RemoveAt(held, CHOOSE i \in at : TRUE)
                     ELSE held
            after == VictimEntries(cache')
            capacity == cache.config.victim_cache_entries
        IN /\ e.outcome = "victim_hit" <=> (e.outcome # "hit" /\ at # {})
           /\ IsNone(e.evicted) => after = taken
           /\ IsSome(e.evicted) =>
                LET stamped == [Unwrap(e.evicted).line EXCEPT
                                  !.stamp = cache.next_stamp]
                IN IF Len(taken) = capacity
                   THEN /\ Len(after) = capacity
                        /\ \E idx \in DOMAIN taken :
                              /\ \A k \in DOMAIN taken : taken[idx].stamp <= taken[k].stamp
                              /\ \A k \in DOMAIN taken :
                                    k < idx => taken[k].stamp > taken[idx].stamp
                              /\ after = Append(RemoveAt(taken, idx), stamped)
                   ELSE after = Append(taken, stamped)
           /\ BlocksOf(after) = LastN(unrecalled', capacity) ]_vars

\* One way with a two-entry victim buffer, blocks 0,1,2,3: the evictions of
\* blocks 0 and 1 filled the buffer, the eviction of block 2 removed block 0.
C22_Witness ==
    /\ cache.config.victim_cache_entries = 2
    /\ trace = <<0, 8, 16, 24>>
    /\ IsSome(Unwrap(last).evicted)
    /\ BlocksOf(VictimEntries(cache)) = <<1, 2>>
    /\ unrecalled = <<0, 1, 2>>

\* C23. Main store and victim buffer are exclusive: after every access no
\* block address is held both by a line of a main set and by an entry of the
\* victim buffer, and no two entries of the victim buffer hold the same block
\* address.
C23_Exclusive ==
    /\ \A s \in DOMAIN cache.sets :
          Resident(cache, s) \cap VictimBlocks(cache) = {}
    /\ \A i, k \in DOMAIN VictimEntries(cache) :
          i # k => VictimEntries(cache)[i].block_address
                     # VictimEntries(cache)[k].block_address

\* One way, blocks 0,1,2 then 1 again: the recall of block 1 swapped it with
\* block 2, and block 0 is still in the two-entry buffer.
C23_Witness ==
    /\ IsSome(last)
    /\ Unwrap(last).outcome = "victim_hit"
    /\ IsSome(Unwrap(last).evicted)
    /\ trace = <<0, 8, 16, 8>>
    /\ Resident(cache, 0) = {1}
    /\ VictimBlocks(cache) = {0, 2}
    /\ Len(VictimEntries(cache)) = 2

\* The stamps of a state: distinct within each set and within the victim
\* buffer, and in None and Mru mode the victim of a full set strictly oldest.
DistinctStamps ==
    /\ \A s \in DOMAIN cache.sets : \A v, w \in DOMAIN cache.sets[s] :
          (v # w /\ IsSome(cache.sets[s][v]) /\ IsSome(cache.sets[s][w])) =>
              Unwrap(cache.sets[s][v]).stamp # Unwrap(cache.sets[s][w]).stamp
    /\ \A i, k \in DOMAIN VictimEntries(cache) :
          i # k => VictimEntries(cache)[i].stamp # VictimEntries(cache)[k].stamp
    /\ cache.prediction_mode \in {"None", "Mru"} =>
          \A s \in DOMAIN cache.sets :
              EmptyWays(cache, s) = {} =>
                  \A w \in DOMAIN cache.sets[s] :
                      w # find_victim_index(cache, s) =>
                          StampKey(cache, s, find_victim_index(cache, s))
                              < StampKey(cache, s, w)

\* C24. Stamps within a set are pairwise distinct: in every prediction mode
\* and with or without victim buffer, after every access no two occupied ways
\* of a set hold the same stamp and no two victim buffer entries hold the same
\* stamp; so in None and Mru mode the way find_victim_index picks in a full
\* set has a stamp strictly below the stamp of every other way.
C24_DistinctStamps == []DistinctStamps

\* Mru mode, two ways and a victim buffer, blocks 0,1,2: the install of block 2
\* reused the stamp of the evicted block 0, which went to the buffer with the
\* tick of the access.
C24_Witness ==
    /\ cache.prediction_mode = "Mru"
    /\ Ways(cache.config) = 2
    /\ trace = <<0, 8, 16>>
    /\ IsSome(Unwrap(last).evicted)
    /\ Unwrap(cache.sets[0][0]).stamp = 1
    /\ Unwrap(cache.sets[0][1]).stamp = 2
    /\ Len(VictimEntries(cache)) = 1
    /\ VictimEntries(cache)[1].stamp = 3

\* The relations between the counters of a state.
CounterConsistency ==
    /\ stats.victim_hits <= stats.hits
    /\ cache.prediction_mode = "None" => IsNone(stats.prediction)
    /\ cache.prediction_mode # "None" =>
          /\ IsSome(stats.prediction)
          /\ LET ps == Unwrap(stats.prediction)
             IN /\ ps.first_hits + ps.non_first_hits = ps.total_hits_observed
                /\ ps.total_hits_observed = stats.hits - stats.victim_hits
                /\ cache.prediction_mode = "MultiColumn" =>
                      ps.bit_vector_observations = ps.total_hits_observed
                /\ cache.prediction_mode = "Mru" =>
                      /\ ps.bit_vector_observations = 0
                      /\ ps.bit_vector_search_total = 0

\* C25. Prediction counter consistency: victim_hits <= hits; with prediction
\* Mru or MultiColumn, after every access first_hits + non_first_hits =
\* total_hits_observed = hits - victim_hits; in MultiColumn mode
\* bit_vector_observations = total_hits_observed, in Mru mode
\* bit_vector_observations and bit_vector_search_total stay 0; with prediction
\* None the stats carry no prediction record.
C25_CounterConsistency == []CounterConsistency

\* MultiColumn mode, one way and a victim buffer, blocks 0,0,0,1,0: two primary
\* hits, the second not a first hit, were scored, the recall of block 0 from
\* the buffer was not.
C25_Witness ==
    /\ cache.prediction_mode = "MultiColumn"
    /\ trace = <<0, 0, 0, 8, 0>>
    /\ stats.hits = 3
    /\ stats.victim_hits = 1
    /\ Unwrap(stats.prediction).total_hits_observed = 2
    /\ Unwrap(stats.prediction).first_hits = 1
    /\ Unwrap(stats.prediction).non_first_hits = 1
    /\ Unwrap(stats.prediction).bit_vector_observations = 2

\* The counters of the statistics that an access kind does not go into.
Outcomes(st) == [st EXCEPT !.reads = 0, !.writes = 0]

\* C26. Outcomes do not depend on access kind: a run with arbitrary Read and
\* Write kinds and the run of the same configuration over the same addresses
\* with every access a Read have the same cache, victim buffer and predictor
\* state, did the same at the last access, and have the same statistics but
\* for reads and writes, which add up to the same number of accesses. Any two
\* runs over the same addresses therefore agree with each other.
C26_KindIndependent ==
    /\ cache = Unwrap(base)
    /\ last = baseLast
    /\ Outcomes(stats) = Outcomes(Unwrap(baseStats))
    /\ stats.reads + stats.writes
         = Unwrap(baseStats).reads + Unwrap(baseStats).writes

\* MultiColumn mode, one way, blocks 0,0,2,0,2: one run wrote three times or
\* more, the other only read, and both had a hit, evictions into the victim
\* buffer and two recalls from it.
C26_Witness ==
    /\ cache.prediction_mode = "MultiColumn"
    /\ Ways(cache.config) = 1
    /\ trace = <<0, 0, 16, 0, 16>>
    /\ stats.writes >= 3
    /\ Unwrap(baseStats).writes = 0
    /\ stats.victim_hits = 2
    /\ Unwrap(baseStats).victim_hits = 2
    /\ Unwrap(stats.prediction).total_hits_observed = 1

\* C27. MultiColumn bits are never stale: in MultiColumn mode, after every
\* access, if bit w of bits[s,c] is set then way w of set s is occupied by a
\* line whose column is c; so for each (set, way) at most one column has bit w
\* set, and no bit is set for an empty way.
C27_NoStaleBits ==
    cache.prediction_mode = "MultiColumn" =>
        LET mc == Unwrap(cache.multi_predictor)
            Set(s, col, w) == BitAt(mc.bits[MultiColumnPredictor_index(mc, s, col)], w) = 1
        IN \A s \in DOMAIN cache.sets : \A w \in DOMAIN cache.sets[s] :
             /\ \A col \in 0..(mc.columns - 1) :
                   Set(s, col, w) =>
                     /\ IsSome(cache.sets[s][w])
                     /\ MultiColumnPredictor_column(
                            mc, Unwrap(cache.sets[s][w]).block_address) = col
             /\ \A col, other \in 0..(mc.columns - 1) :
                   (Set(s, col, w) /\ Set(s, other, w)) => col = other
             /\ IsNone(cache.sets[s][w]) =>
                   \A col \in 0..(mc.columns - 1) : ~Set(s, col, w)

\* One set of two ways and two columns, blocks 0,0,1,1,3: both lines were
\* hot, so block 0 of column 0 was evicted from way 0 and its bit cleared;
\* block 3 of column 1 sits in way 0 with no bit, and bit 1 of column 1 is
\* still the bit of block 1.
C27_Witness ==
    /\ cache.prediction_mode = "MultiColumn"
    /\ Ways(cache.config) = 2
    /\ num_sets(cache.config) = 1
    /\ trace = <<0, 0, 8, 8, 24>>
    /\ IsSome(Unwrap(last).evicted)
    /\ Unwrap(last).way = 0
    /\ Unwrap(cache.multi_predictor).columns = 2
    /\ Unwrap(cache.multi_predictor).bits[0] = 0
    /\ Unwrap(cache.multi_predictor).bits[1] = 2

\* The positions before the last at which the trace accessed the block of its
\* last access, and the other blocks of that block's set accessed after
\* position p and before the last access.
EarlierAccesses(config, tr) ==
    { i \in 1..(Len(tr) - 1) :
        BlockOf(config, tr[i]) = BlockOf(config, LastAddress(tr)) }

OthersSince(config, tr, p) ==
    { BlockOf(config, tr[i]) :
        i \in { k \in (p + 1)..(Len(tr) - 1) :
                   /\ SetOf(config, tr[k]) = SetOf(config, LastAddress(tr))
                   /\ BlockOf(config, tr[k]) # BlockOf(config, LastAddress(tr)) } }

\* The last access of the trace was a primary hit if it came right after an
\* access to the same block or, with prediction None, after fewer than W other
\* blocks of its set since the last access to its block.
Recency ==
    IsSome(last) =>
        LET config == cache.config
            earlier == EarlierAccesses(config, trace)
        IN /\ (Len(trace) - 1) \in earlier => Unwrap(last).outcome = "hit"
           /\ (cache.prediction_mode = "None" /\ earlier # {}) =>
                 LET p == CHOOSE i \in earlier : \A k \in earlier : k <= i
                 IN Cardinality(OthersSince(config, trace, p)) < Ways(config)
                      => Unwrap(last).outcome = "hit"

\* C28. Recency guarantees on re-access: in every prediction mode and victim
\* configuration an access to the block of the access just before it is a
\* primary hit; with prediction None and W ways an access to a block is a
\* primary hit whenever the block was accessed earlier and fewer than W
\* distinct other blocks of its set were accessed since its last access.
C28_Recency == []Recency

\* Prediction None, one set of two ways with a victim buffer, blocks
\* 0,1,2,1,2: block 0 was evicted, and the last access to block 2 comes after
\* one other block since its own last access and is a primary hit.
C28_Witness ==
    /\ cache.prediction_mode = "None"
    /\ Ways(cache.config) = 2
    /\ IsSome(cache.victim)
    /\ trace = <<0, 8, 16, 8, 16>>
    /\ OthersSince(cache.config, trace, 3) = {1}
    /\ Unwrap(last).outcome = "hit"
    /\ VictimBlocks(cache) = {0}

====
